---- MODULE Spec2Model ----
(***************************************************************************)
(* State-machine model of etl.py: the module-level configuration code, the *)
(* engine session, process_song_data, process_log_data and main.           *)
(*                                                                         *)
(* A dataframe or a stored table is an unordered multiset of rows, so it   *)
(* is a bag of records.  A JSON value that is absent is Null; SQL          *)
(* comparison with Null is never true.  ts is an integer column, so its    *)
(* null is the empty tuple and a present value v is <<v>>.  Epoch          *)
(* milliseconds are kept below 2^31 so that the arithmetic of the          *)
(* timestamp conversion is done on the real numbers of the model.          *)
(***************************************************************************)
EXTENDS Bags, FiniteSets, Integers, Sequences, TLC

VARIABLES
    cfgFile,          \* contents of dl.cfg on disk ("missing" when no file)
    catalog,          \* song JSON records under song_data/A/*/*/*.json
    log,              \* event JSON records under log_data/2018/11/*.json
    tz,               \* UTC offset (hours) of the local time zone
    config,           \* the ConfigParser object, a set of option names
    env,              \* os.environ: the credential variables that are set
    session,          \* TRUE once the SparkSession exists
    pc,               \* next statement of the script
    failedAt,         \* statement at which the run raised, or "none"
    df_song,          \* df of process_song_data
    df,               \* df of process_log_data
    song_df,          \* song_df of process_log_data
    views,            \* temp views registered with the session
    songplays_table,  \* the joined dataframe of process_log_data
    storage,          \* the five output locations
    prior,            \* storage as it was when the process started
    writes,           \* tables whose write completed in this run, in order
    calls,            \* functions main has invoked in this run, in order
    runs              \* number of processes started so far

vars == <<cfgFile, catalog, log, tz, config, env, session, pc, failedAt,
          df_song, df, song_df, views, songplays_table, storage, prior,
          writes, calls, runs>>

----------------------------------------------------------------------------
(* Bounds of the model *)

MaxSongs == 2
MaxEvents == 2
MaxRuns == 2

----------------------------------------------------------------------------
(* Values *)

Null == "<null>"
NullTs == << >>
Unbound == EmptyBag

TableNames == {"songs", "artists", "users", "time", "songplays"}
WriteOrder == <<"songs", "artists", "users", "time", "songplays">>

Song(sid, title, aid, aname, yr) ==
    [song_id |-> sid, title |-> title, artist_id |-> aid, year |-> yr,
     duration |-> "123.4", artist_name |-> aname,
     artist_location |-> Null, artist_latitude |-> Null,
     artist_longitude |-> Null, num_songs |-> 1]

SongPool ==
    { Song("S1", "X", "A1", "ArtistA", 2000),
      Song("S2", "X", "A1", "ArtistA", 2001),
      Song("S3", Null, "A2", "ArtistB", 2000),
      Song("S4", "X", "A2", "ArtistB", 2000) }

Event(uid, level, page, ts, song, artist) ==
    [userId |-> uid, firstName |-> "Jo", lastName |-> "Doe", gender |-> "F",
     level |-> level, page |-> page, ts |-> ts, song |-> song,
     artist |-> artist, sessionId |-> 5, location |-> "LA",
     userAgent |-> "UA"]

EventPool ==
    { Event("7", "free", "NextSong", <<86399999>>, "X", "ArtistA"),
      Event("7", "free", "NextSong", <<86399999>>, "Z", "ArtistB"),
      Event("7", "free", "NextSong", <<86399999>>, Null, "ArtistB"),
      Event("7", "paid", "NextSong", <<1542037200>>, "X", "ArtistB"),
      Event("8", "free", "Home", <<1542037200>>, Null, Null),
      Event("8", "free", Null, <<0>>, "X", "ArtistA"),
      Event("8", "free", "NextSong", NullTs, "X", "ArtistA") }

TzOffsets == {0, -5}

RECURSIVE SumCounts(_, _)
SumCounts(f, S) ==
    IF S = {} THEN 0
    ELSE LET x == CHOOSE y \in S : TRUE
         IN  f[x] + SumCounts(f, S \ {x})

(* all multisets of at most n elements of S *)
BagsUpTo(S, n) ==
    LET Counts == {f \in [S -> 0..n] : SumCounts(f, S) <= n}
    IN  {[x \in {y \in S : f[y] > 0} |-> f[x]] : f \in Counts}

----------------------------------------------------------------------------
(* Engine operations on dataframes *)

(* DataFrame.distinct(): one copy of every row *)
(* variant: distinct() forgotten *)
DistinctKeepAll(d) == d
Distinct(d) == SetToBag(BagToSet(d))

(* DataFrameWriter.parquet(path, mode='overwrite'): the new rows replace    *)
(* whatever the location held.                                             *)
(* variant: mode='append' *)
OverwriteAppend(old, new) == old (+) new
Overwrite(old, new) == new

(* SQL equality: never true when either side is null *)
SqlEq(a, b) == a # Null /\ b # Null /\ a = b

(* col('page') == 'NextSong' *)
(* variant: only the Home page is dropped *)
PageIsNotHome(e) == e.page # "Home"
PageIsNextSong(e) == SqlEq(e.page, "NextSong")

(* DataFrame.filter: the rows of d that satisfy the condition, with their
   multiplicity *)
filter(d) == [x \in {y \in BagToSet(d) : PageIsNextSong(y)} |-> d[x]]

----------------------------------------------------------------------------
(* Timestamp and calendar functions *)

(* datetime.fromtimestamp(x / 1000.0): the local wall-clock time, kept as  *)
(* milliseconds of local time since 1970-01-01T00:00 local.                *)
get_timestamp(x, offset) ==
    ((x \div 1000) + offset * 3600) * 1000 + (x % 1000)

DayNumber(t) == t \div 86400000

(* proleptic Gregorian date of a day number (days since 1970-01-01) *)
CivilFromDays(z0) ==
    LET z   == z0 + 719468
        era == z \div 146097
        doe == z - era * 146097
        yoe == (doe - (doe \div 1460) + (doe \div 36524) - (doe \div 146096))
                 \div 365
        doy == doe - (365 * yoe + (yoe \div 4) - (yoe \div 100))
        mp  == (5 * doy + 2) \div 153
        d   == doy - ((153 * mp + 2) \div 5) + 1
        m   == IF mp < 10 THEN mp + 3 ELSE mp - 9
        y   == yoe + era * 400 + (IF m <= 2 THEN 1 ELSE 0)
    IN  [year |-> y, month |-> m, day |-> d]

DaysFromCivil(y0, m, d) ==
    LET y   == IF m <= 2 THEN y0 - 1 ELSE y0
        era == y \div 400
        yoe == y - era * 400
        mp  == IF m > 2 THEN m - 3 ELSE m + 9
        doy == ((153 * mp + 2) \div 5) + d - 1
        doe == yoe * 365 + (yoe \div 4) - (yoe \div 100) + doy
    IN  era * 146097 + doe - 719468

hour(t) == (t \div 3600000) % 24
dayofmonth(t) == CivilFromDays(DayNumber(t)).day
month(t) == CivilFromDays(DayNumber(t)).month
year(t) == CivilFromDays(DayNumber(t)).year
(* 1 = Sunday .. 7 = Saturday; 1970-01-01 was a Thursday *)
dayofweek(t) == ((DayNumber(t) + 4) % 7) + 1
(* ISO 8601 week: the week of the year that holds this week's Thursday *)
weekofyear(t) ==
    LET isoDay   == ((DayNumber(t) + 3) % 7) + 1
        thursday == DayNumber(t) - isoDay + 4
        y        == CivilFromDays(thursday).year
    IN  ((thursday - DaysFromCivil(y, 1, 1)) \div 7) + 1

----------------------------------------------------------------------------
(* Projections of process_song_data *)

SongsRow(r) ==
    [song_id |-> r.song_id, title |-> r.title, artist_id |-> r.artist_id,
     year |-> r.year, duration |-> r.duration]

songs_table(d) == Distinct(BagOfAll(SongsRow, d))

ArtistsRow(r) ==
    [artist_id |-> r.artist_id, artist_name |-> r.artist_name,
     artist_location |-> r.artist_location,
     artist_latitude |-> r.artist_latitude,
     artist_longitude |-> r.artist_longitude]

artists_table(d) == Distinct(BagOfAll(ArtistsRow, d))

----------------------------------------------------------------------------
(* Projections of process_log_data *)

UsersRow(e) ==
    [user_id |-> e.userId, first_name |-> e.firstName,
     last_name |-> e.lastName, gender |-> e.gender, level |-> e.level]

users_table(d) == Distinct(BagOfAll(UsersRow, d))

(* df.withColumn('timestamp', get_timestamp(df.ts)); the column is computed *)
(* when a job reads it, and the lambda raises TypeError on a null ts.       *)
WithTimestamp(e) ==
    [timestamp |-> IF e.ts = NullTs THEN NullTs
                   ELSE <<get_timestamp(e.ts[1], tz)>>] @@ e

HasTs(e) == e.ts # NullTs
UdfRaises(d) == \E e \in BagToSet(d) : ~HasTs(e)
(* the rows whose timestamp the lambda can compute *)
Computable(d) == [x \in {y \in BagToSet(d) : HasTs(y)} |-> d[x]]

TimeRow(e) ==
    LET t == e.timestamp[1]
    IN  [ts_key |-> e.ts, start_time |-> e.timestamp, hour |-> hour(t),
         day |-> dayofmonth(t), week |-> weekofyear(t), month |-> month(t),
         year |-> year(t), weekday |-> dayofweek(t)]

(* variant: the time projection without distinct() *)
time_tableAll(d) == BagOfAll(TimeRow, d)
time_table(d) == Distinct(BagOfAll(TimeRow, d))

(* ON events.song = songs.title AND events.artist = songs.artist_name *)
(* variant: the join on the title alone *)
JoinOnTitle(e, s) == SqlEq(e.song, s.title)
JoinCondition(e, s) ==
    SqlEq(e.song, s.title) /\ SqlEq(e.artist, s.artist_name)

(* events LEFT JOIN songs: a row <<e, s>> for every pair that satisfies the *)
(* condition, and a row <<e>> for every event that no song satisfies it     *)
(* with.                                                                    *)
LeftJoin(events, songs) ==
    LET Matched   == {p \in BagToSet(events) \X BagToSet(songs) :
                          JoinCondition(p[1], p[2])}
        Unmatched == {<<e>> : e \in {x \in BagToSet(events) :
                          \A s \in BagToSet(songs) : ~JoinCondition(x, s)}}
    IN  [p \in Matched \cup Unmatched |->
            IF Len(p) = 1 THEN events[p[1]]
            ELSE events[p[1]] * songs[p[2]]]

SongplaysRow(p) ==
    LET e == p[1]
    IN  [ts_key |-> e.ts, start_time |-> e.timestamp, user_id |-> e.userId,
         level |-> e.level,
         song_id |-> IF Len(p) = 1 THEN Null ELSE p[2].song_id,
         artist_id |-> IF Len(p) = 1 THEN Null ELSE p[2].artist_id,
         session_id |-> e.sessionId, location |-> e.location,
         user_agent |-> e.userAgent]

(* variant: SELECT DISTINCT *)
songplays_queryDistinct(v) ==
    Distinct(BagOfAll(SongplaysRow, LeftJoin(v.events_table, v.songs_table)))
songplays_query(v) ==
    BagOfAll(SongplaysRow, LeftJoin(v.events_table, v.songs_table))

----------------------------------------------------------------------------
(* Initial state *)

ConfigKeys == {"AWS_ACCESS_KEY_ID", "AWS_SECRET_ACCESS_KEY"}

CfgFiles ==
    {[exists |-> FALSE, options |-> {}]}
        \cup {[exists |-> TRUE, options |-> o] : o \in SUBSET ConfigKeys}

NoStorage == [t \in TableNames |-> EmptyBag]

(* what an earlier run over other input left at the output locations *)
StaleStorage ==
    [songs     |-> SetToBag({SongsRow(Song("S4", "X", "A2", "ArtistB", 2000))}),
     artists   |-> SetToBag({ArtistsRow(Song("S0", "W", "A0", "ArtistW", 1999))}),
     users     |-> SetToBag({UsersRow(Event("8", "free", "Home", <<0>>, Null, Null))}),
     time      |-> SetToBag({[ts_key |-> <<0>>, start_time |-> <<0>>,
                              hour |-> 0, day |-> 1, week |-> 1, month |-> 1,
                              year |-> 1970, weekday |-> 5]}),
     songplays |-> SetToBag({[ts_key |-> <<86399999>>,
                              start_time |-> <<86399999>>, user_id |-> "7",
                              level |-> "free", song_id |-> Null,
                              artist_id |-> Null, session_id |-> 5,
                              location |-> "LA", user_agent |-> "UA"]})]

NoViews == [events_table |-> Unbound, songs_table |-> Unbound]

Init ==
    /\ cfgFile \in CfgFiles
    /\ catalog \in BagsUpTo(SongPool, MaxSongs)
    /\ log \in BagsUpTo(EventPool, MaxEvents)
    /\ tz \in TzOffsets
    /\ storage \in {NoStorage, StaleStorage}
    /\ prior = storage
    /\ config = {}
    /\ env = {}
    /\ session = FALSE
    /\ pc = "read_config"
    /\ failedAt = "none"
    /\ df_song = Unbound
    /\ df = Unbound
    /\ song_df = Unbound
    /\ views = NoViews
    /\ songplays_table = Unbound
    /\ writes = << >>
    /\ calls = << >>
    /\ runs = 1

----------------------------------------------------------------------------
(* Steps of the script *)

Inputs == <<cfgFile, catalog, log, tz>>
Memory == <<df_song, df, song_df, views, songplays_table>>
Process == <<config, env, session>>

(* an uncaught exception ends the process *)
Abort == pc' = "failed" /\ failedAt' = pc
Goto(next) == pc' = next /\ failedAt' = failedAt

(* config.read('dl.cfg'): a file that does not exist is skipped silently *)
ReadConfig ==
    /\ pc = "read_config"
    /\ config' = IF cfgFile.exists THEN cfgFile.options ELSE {}
    /\ Goto("set_key_id")
    /\ UNCHANGED <<Inputs, Memory, env, session, storage, prior, writes,
                   calls, runs>>

(* os.environ[key] = config.get('AWS', key): NoSectionError or             *)
(* NoOptionError when the option is not there                              *)
(* variant: config.get with a fallback, a missing option is skipped *)
SetEnvFromLenient(key, next) ==
    /\ env' = (IF key \in config THEN env \cup {key} ELSE env)
    /\ Goto(next)
SetEnvFrom(key, next) ==
    IF key \in config
    THEN env' = env \cup {key} /\ Goto(next)
    ELSE env' = env /\ Abort

SetAccessKeyId ==
    /\ pc = "set_key_id"
    /\ SetEnvFrom("AWS_ACCESS_KEY_ID", "set_secret")
    /\ UNCHANGED <<Inputs, Memory, config, session, storage, prior, writes,
                   calls, runs>>

SetSecretAccessKey ==
    /\ pc = "set_secret"
    /\ SetEnvFrom("AWS_SECRET_ACCESS_KEY", "create_session")
    /\ UNCHANGED <<Inputs, Memory, config, session, storage, prior, writes,
                   calls, runs>>

(* main: spark = create_spark_session() *)
CreateSparkSession ==
    /\ pc = "create_session"
    /\ \/ session' = TRUE /\ Goto("load_song_data")
       \/ session' = session /\ Abort
    /\ UNCHANGED <<Inputs, Memory, config, env, storage, prior, writes,
                   calls, runs>>

(* spark.read.format('json').load(path): raises when the pattern matches   *)
(* no record or the files cannot be read                                   *)
LoadRaises(files) == files = EmptyBag

(* DataFrameWriter.parquet(..., mode='overwrite') that raises: the old     *)
(* files may or may not have been removed yet and any part of the new rows *)
(* may have been committed                                                 *)
LeftByFailedWrite(old, new) == {old} \cup SubBag(new)

(* variant: a failed write restores every output location *)
AfterFailedWriteRollback(t, left) == prior
AfterFailedWrite(t, left) == [storage EXCEPT ![t] = left]

WriteTable(t, new, next) ==
    \/ /\ storage' = [storage EXCEPT ![t] = Overwrite(storage[t], new)]
       /\ writes' = Append(writes, t)
       /\ Goto(next)
    \/ /\ \E left \in LeftByFailedWrite(storage[t], new) :
              storage' = AfterFailedWrite(t, left)
       /\ writes' = writes
       /\ Abort

(* process_song_data *)
LoadSongData ==
    /\ pc = "load_song_data"
    /\ calls' = Append(calls, "process_song_data")
    /\ \/ ~LoadRaises(catalog) /\ df_song' = catalog /\ Goto("write_songs")
       \/ df_song' = df_song /\ Abort
    /\ UNCHANGED <<Inputs, Process, df, song_df, views, songplays_table,
                   storage, prior, writes, runs>>

WriteSongs ==
    /\ pc = "write_songs"
    /\ WriteTable("songs", songs_table(df_song), "write_artists")
    /\ UNCHANGED <<Inputs, Process, Memory, prior, calls, runs>>

(* variant: the artists write left out *)
WriteArtistsSkipped ==
    /\ pc = "write_artists"
    /\ Goto("load_log_data")
    /\ UNCHANGED <<Inputs, Process, Memory, storage, prior, writes, calls,
                   runs>>
WriteArtists ==
    /\ pc = "write_artists"
    /\ WriteTable("artists", artists_table(df_song), "load_log_data")
    /\ UNCHANGED <<Inputs, Process, Memory, prior, calls, runs>>

(* process_log_data *)
LoadLogData ==
    /\ pc = "load_log_data"
    /\ calls' = Append(calls, "process_log_data")
    /\ \/ ~LoadRaises(log) /\ df' = log /\ Goto("filter")
       \/ df' = df /\ Abort
    /\ UNCHANGED <<Inputs, Process, df_song, song_df, views, songplays_table,
                   storage, prior, writes, runs>>

FilterNextSong ==
    /\ pc = "filter"
    /\ df' = filter(df)
    /\ Goto("write_users")
    /\ UNCHANGED <<Inputs, Process, df_song, song_df, views, songplays_table,
                   storage, prior, writes, calls, runs>>

WriteUsers ==
    /\ pc = "write_users"
    /\ WriteTable("users", users_table(df), "add_timestamp")
    /\ UNCHANGED <<Inputs, Process, Memory, prior, calls, runs>>

AddTimestamp ==
    /\ pc = "add_timestamp"
    /\ df' = BagOfAll(WithTimestamp, df)
    /\ Goto("events_view")
    /\ UNCHANGED <<Inputs, Process, df_song, song_df, views, songplays_table,
                   storage, prior, writes, calls, runs>>

CreateEventsView ==
    /\ pc = "events_view"
    /\ views' = [views EXCEPT !.events_table = df]
    /\ Goto("write_time")
    /\ UNCHANGED <<Inputs, Process, df_song, df, song_df, songplays_table,
                   storage, prior, writes, calls, runs>>

(* the write job is the first to evaluate the timestamp column *)
WriteTime ==
    /\ pc = "write_time"
    /\ IF UdfRaises(df)
       THEN /\ \E left \in LeftByFailedWrite(storage["time"],
                              time_table(Computable(df))) :
                   storage' = AfterFailedWrite("time", left)
            /\ writes' = writes
            /\ Abort
       ELSE WriteTable("time", time_table(df), "load_song_df")
    /\ UNCHANGED <<Inputs, Process, Memory, prior, calls, runs>>

LoadSongDf ==
    /\ pc = "load_song_df"
    /\ \/ ~LoadRaises(catalog) /\ song_df' = catalog /\ Goto("songs_view")
       \/ song_df' = song_df /\ Abort
    /\ UNCHANGED <<Inputs, Process, df_song, df, views, songplays_table,
                   storage, prior, writes, calls, runs>>

CreateSongsView ==
    /\ pc = "songs_view"
    /\ views' = [views EXCEPT !.songs_table = song_df]
    /\ Goto("join")
    /\ UNCHANGED <<Inputs, Process, df_song, df, song_df, songplays_table,
                   storage, prior, writes, calls, runs>>

JoinSongplays ==
    /\ pc = "join"
    /\ songplays_table' = songplays_query(views)
    /\ Goto("write_songplays")
    /\ UNCHANGED <<Inputs, Process, df_song, df, song_df, views, storage,
                   prior, writes, calls, runs>>

WriteSongplays ==
    /\ pc = "write_songplays"
    /\ WriteTable("songplays", songplays_table, "done")
    /\ UNCHANGED <<Inputs, Process, Memory, prior, calls, runs>>

(* the script is started again, on the same input, after a run that ended  *)
(* normally                                                                *)
Rerun ==
    /\ pc = "done"
    /\ runs < MaxRuns
    /\ runs' = runs + 1
    /\ prior' = storage
    /\ config' = {} /\ env' = {} /\ session' = FALSE
    /\ pc' = "read_config" /\ failedAt' = "none"
    /\ df_song' = Unbound /\ df' = Unbound /\ song_df' = Unbound
    /\ views' = NoViews /\ songplays_table' = Unbound
    /\ writes' = << >> /\ calls' = << >>
    /\ UNCHANGED <<Inputs, storage>>

Next ==
    \/ ReadConfig
    \/ SetAccessKeyId
    \/ SetSecretAccessKey
    \/ CreateSparkSession
    \/ LoadSongData
    \/ WriteSongs
    \/ WriteArtists
    \/ LoadLogData
    \/ FilterNextSong
    \/ WriteUsers
    \/ AddTimestamp
    \/ CreateEventsView
    \/ WriteTime
    \/ LoadSongDf
    \/ CreateSongsView
    \/ JoinSongplays
    \/ WriteSongplays
    \/ Rerun

Spec == Init /\ [][Next]_vars

----------------------------------------------------------------------------
(* Reference values the properties are stated with: what the tables are to *)
(* hold, written down from the input alone.                                *)

Written(t) == \E i \in 1..Len(writes) : writes[i] = t

IsPrefix(p, q) == Len(p) <= Len(q) /\ \A i \in 1..Len(p) : p[i] = q[i]

NextSongEvents(lg) == {e \in DOMAIN lg : e.page = "NextSong"}

Matching(e, cat) ==
    {s \in DOMAIN cat : /\ e.song # Null /\ e.song = s.title
                        /\ e.artist # Null /\ e.artist = s.artist_name}

(* an event with its local wall-clock time; an event without ts has none *)
Stamped(e) ==
    [timestamp |-> IF e.ts = NullTs THEN NullTs
                   ELSE <<((e.ts[1] \div 1000) + tz * 3600) * 1000
                              + (e.ts[1] % 1000)>>] @@ e

PlayRow(e, sid, aid) ==
    [ts_key |-> e.ts, start_time |-> Stamped(e).timestamp,
     user_id |-> e.userId, level |-> e.level, song_id |-> sid,
     artist_id |-> aid, session_id |-> e.sessionId,
     location |-> e.location, user_agent |-> e.userAgent]

AllOnce(b) == \A r \in DOMAIN b : b[r] = 1

ExpectedSongs(cat) == {SongsRow(r) : r \in DOMAIN cat}
ExpectedArtists(cat) == {ArtistsRow(r) : r \in DOMAIN cat}
ExpectedUsers(lg) == {UsersRow(e) : e \in NextSongEvents(lg)}
ExpectedTime(lg) ==
    {TimeRow(Stamped(e)) : e \in {x \in NextSongEvents(lg) : x.ts # NullTs}}

(* the rows one filtered event gives: one per matching catalog record, or  *)
(* one with null ids                                                       *)
PlaysOf(e, cat) ==
    IF Matching(e, cat) = {}
    THEN {PlayRow(e, Null, Null)}
    ELSE {PlayRow(e, s.song_id, s.artist_id) : s \in Matching(e, cat)}

(* how many joined rows of event e come out as row r *)
PlayCount(e, cat, r) ==
    IF Matching(e, cat) = {}
    THEN (IF r = PlayRow(e, Null, Null) THEN 1 ELSE 0)
    ELSE SumCounts(cat, {s \in Matching(e, cat) :
                            r = PlayRow(e, s.song_id, s.artist_id)})

RECURSIVE PlayTotal(_, _, _, _)
PlayTotal(es, lg, cat, r) ==
    IF es = {} THEN 0
    ELSE LET e == CHOOSE x \in es : TRUE
         IN  lg[e] * PlayCount(e, cat, r) + PlayTotal(es \ {e}, lg, cat, r)

ExpectedSongplays(cat, lg) ==
    LET es == NextSongEvents(lg)
    IN  [r \in UNION {PlaysOf(e, cat) : e \in es} |->
            PlayTotal(es, lg, cat, r)]

ExpectedStorage(cat, lg) ==
    [songs     |-> SetToBag(ExpectedSongs(cat)),
     artists   |-> SetToBag(ExpectedArtists(cat)),
     users     |-> SetToBag(ExpectedUsers(lg)),
     time      |-> SetToBag(ExpectedTime(lg)),
     songplays |-> ExpectedSongplays(cat, lg)]

Without(lg, e) == lg (-) SetToBag({e})

----------------------------------------------------------------------------
(* C1: join completeness.  Once songplays is written it holds as many rows *)
(* as there are filtered events (page = 'NextSong'), whatever the catalog, *)
(* also a catalog with several records of one title and artist_name.       *)
C1_JoinCompleteness ==
    Written("songplays") =>
        BagCardinality(storage["songplays"])
            = SumCounts(log, NextSongEvents(log))

C3_LeftJoinNulls ==
    (pc = "write_songplays" \/ Written("songplays")) =>
        LET T == IF Written("songplays") THEN storage["songplays"]
                 ELSE songplays_table
        IN  /\ \A e \in NextSongEvents(log) :
                   Matching(e, catalog) = {} =>
                       /\ CopiesIn(PlayRow(e, Null, Null), T) >= log[e]
                       /\ \A r \in DOMAIN T :
                              (r.ts_key = e.ts /\ r.user_id = e.userId
                                  /\ r.level = e.level)
                                  => \/ r.song_id = Null /\ r.artist_id = Null
                                     \/ \E f \in NextSongEvents(log) \ {e} :
                                            r \in PlaysOf(f, catalog)
            /\ \A r \in DOMAIN T :
                   (r.song_id # Null \/ r.artist_id # Null) =>
                       \E e \in NextSongEvents(log) :
                           \E s \in Matching(e, catalog) :
                               r = PlayRow(e, s.song_id, s.artist_id)

C3_Witness ==
    /\ Written("songplays")
    /\ \E e \in NextSongEvents(log) :
           e.song = Null /\ Matching(e, catalog) = {}
    /\ \E r \in DOMAIN storage["songplays"] : r.song_id # Null

(* C4: deduplication.  Each of songs, artists, users and time, as written, *)
(* holds no row twice and holds exactly the distinct projected rows of its *)
(* (filtered) input.                                                       *)
C4_Deduplication ==
    /\ Written("songs") =>
           /\ AllOnce(storage["songs"])
           /\ DOMAIN storage["songs"] = ExpectedSongs(catalog)
    /\ Written("artists") =>
           /\ AllOnce(storage["artists"])
           /\ DOMAIN storage["artists"] = ExpectedArtists(catalog)
    /\ Written("users") =>
           /\ AllOnce(storage["users"])
           /\ DOMAIN storage["users"] = ExpectedUsers(log)
    /\ Written("time") =>
           /\ AllOnce(storage["time"])
           /\ DOMAIN storage["time"] = ExpectedTime(log)

C4_Witness ==
    /\ Written("time")
    /\ \E r \in DOMAIN catalog : catalog[r] = 2
    /\ \E e \in NextSongEvents(log) : log[e] = 2

(* C5: idempotence.  After a run that ended normally the five tables are   *)
(* what the input gives, whatever the output locations held before, and a  *)
(* second run on the same input leaves what the first one left.            *)
C5_Idempotence ==
    pc = "done" =>
        /\ storage = ExpectedStorage(catalog, log)
        /\ runs > 1 => storage = prior

C5_Witness ==
    /\ pc = "done"
    /\ runs = 2
    /\ storage["songplays"] # EmptyBag
    /\ storage # StaleStorage

(* C6 as stated: songplays holds a row twice only when the log holds a     *)
(* filtered event twice, and an event held k times gives a row held k      *)
(* times.                                                                  *)
C6_DuplicatesOnlyFromLog ==
    Written("songplays") =>
        /\ \A r \in DOMAIN storage["songplays"] :
               storage["songplays"][r] >= 2 =>
                   \E e \in NextSongEvents(log) :
                       log[e] >= 2 /\ r \in PlaysOf(e, catalog)
        /\ \A e \in NextSongEvents(log) :
               \E r \in PlaysOf(e, catalog) :
                   storage["songplays"][r] >= log[e]

(* C6 as amended: songplays is not deduplicated.  It holds every row of    *)
(* the join, so a row is held as many times as joined rows come out equal  *)
(* to it, and an event held k times in the filtered log gives each of its  *)
(* rows at least k times.                                                  *)
C6_NotDeduplicated ==
    Written("songplays") =>
        /\ \A r \in DOMAIN storage["songplays"] :
               storage["songplays"][r]
                   = PlayTotal(NextSongEvents(log), log, catalog, r)
        /\ \A e \in NextSongEvents(log) :
               \A r \in PlaysOf(e, catalog) :
                   CopiesIn(r, storage["songplays"]) >= log[e]

C6_Witness ==
    /\ Written("songplays")
    /\ \E e \in NextSongEvents(log) : log[e] = 2
    /\ \E r \in DOMAIN storage["songplays"] : storage["songplays"][r] = 2

(* C7: credentials before storage.  Whenever a storage read or write has   *)
(* been issued both credential variables are set; when dl.cfg is missing   *)
(* or lacks a key the process never gets a session, never enters a         *)
(* transform and leaves the output locations as they were.                 *)
C7_CredentialsFirst ==
    /\ (calls # << >> \/ writes # << >> \/ storage # prior)
           => ConfigKeys \subseteq env
    /\ (~cfgFile.exists \/ ~(ConfigKeys \subseteq cfgFile.options)) =>
           /\ session = FALSE
           /\ calls = << >>
           /\ storage = prior
           /\ pc \in {"read_config", "set_key_id", "set_secret", "failed"}

C7_Witness ==
    /\ Written("songs")
    /\ ConfigKeys \subseteq env
    /\ cfgFile.exists

(* C8: run ordering.  main calls process_song_data and then                *)
(* process_log_data, each once; the writes of a run complete in the order  *)
(* songs, artists, users, time, songplays, each once; a run that ends      *)
(* normally has written all five.                                          *)
C8_RunOrdering ==
    /\ IsPrefix(calls, <<"process_song_data", "process_log_data">>)
    /\ IsPrefix(writes, WriteOrder)
    /\ pc \in {"load_log_data", "filter", "write_users"} => Len(writes) = 2
    /\ pc = "done" =>
           /\ writes = WriteOrder
           /\ calls = <<"process_song_data", "process_log_data">>

C8_Witness ==
    /\ pc = "done"
    /\ writes = WriteOrder

(* C9 as stated: after a failure the tables whose write completed hold     *)
(* their new rows and every other table holds exactly what it held when    *)
(* the run started.                                                        *)
C9_FailureLeavesPrefix ==
    pc = "failed" =>
        \A t \in TableNames :
            /\ Written(t) => storage[t] = ExpectedStorage(catalog, log)[t]
            /\ ~Written(t) => storage[t] = prior[t]

FailedTable ==
    CASE failedAt = "write_songs" -> {"songs"}
      [] failedAt = "write_artists" -> {"artists"}
      [] failedAt = "write_users" -> {"users"}
      [] failedAt = "write_time" -> {"time"}
      [] failedAt = "write_songplays" -> {"songplays"}
      [] OTHER -> {}

(* C9 as amended: a failure ends the run, nothing is rolled back and       *)
(* nothing is retried.  The tables whose write completed hold their new    *)
(* rows, the tables whose write had not begun hold what they held when the *)
(* run started, and the table whose write failed holds either that or some *)
(* of its new rows (possibly none).                                        *)
C9_FailureNoRollback ==
    pc = "failed" =>
        /\ ~ENABLED Next
        /\ IsPrefix(writes, WriteOrder) /\ Len(writes) < Len(WriteOrder)
        /\ \A t \in TableNames :
               /\ Written(t) => storage[t] = ExpectedStorage(catalog, log)[t]
               /\ (~Written(t) /\ t \notin FailedTable)
                      => storage[t] = prior[t]
               /\ t \in FailedTable =>
                      \/ storage[t] = prior[t]
                      \/ storage[t] \sqsubseteq ExpectedStorage(catalog, log)[t]

C9_Witness ==
    /\ pc = "failed"
    /\ failedAt = "write_time"
    /\ writes = <<"songs", "artists", "users">>
    /\ storage["songs"] # prior["songs"]
    /\ storage["time"] # prior["time"]
    /\ storage["songplays"] = prior["songplays"]
    /\ prior["songplays"] # EmptyBag

(* C10: the time table is keyed by ts_key.  As written it holds one row    *)
(* for every ts of the filtered events and no two of its rows have the     *)
(* same ts_key; every ts_key of songplays is a ts_key of time.             *)
C10_TimeKeyedByTs ==
    /\ Written("time") =>
           /\ \A r \in DOMAIN storage["time"] :
                  /\ storage["time"][r] = 1
                  /\ \A q \in DOMAIN storage["time"] :
                         q.ts_key = r.ts_key => q = r
           /\ {r.ts_key : r \in DOMAIN storage["time"]}
                  = {e.ts : e \in NextSongEvents(log)}
    /\ Written("songplays") =>
           \A r \in DOMAIN storage["songplays"] :
               \E q \in DOMAIN storage["time"] : q.ts_key = r.ts_key

C10_Witness ==
    /\ Written("songplays")
    /\ Cardinality(DOMAIN storage["time"]) = 1
    /\ \E e \in NextSongEvents(log) :
           \E f \in NextSongEvents(log) : e # f /\ e.ts = f.ts

====
